---- MODULE Spec2Model ----
(***************************************************************************)
(* A model of the tell data-preparation scripts:                           *)
(*   src/tell/data_process_pop_interp.py   county population -> BA-year -> *)
(*                                         BA-hour population              *)
(*   src/tell/data_process_eia_930.py      per-BA EIA-930 xlsx -> csv      *)
(*   src/tell/install_quickstarter_data.py Zenodo sample-data download     *)
(*                                                                         *)
(* One run of the model is one call of one public function (variable       *)
(* `call`).  `pc` is the line the call has reached, `outcome` how it ended *)
(* (returned, or the exception that left it).  Files are read when the     *)
(* code reads them: their content is chosen at the read.                   *)
(***************************************************************************)
EXTENDS Integers, Sequences, FiniteSets, TLC

VARIABLES
    call,             \* the public function that was called
    pc,               \* the line the call has reached, or "done"
    outcome,          \* how the call ended
    \* ---- data_process_pop_interp.py
    start_year, end_year,
    df_pop,           \* the population csv as read at line 20
    y,                \* loop variable of fips_pop_yearly
    df,               \* fips_pop_yearly: the long table being accumulated
    frame,            \* merge_mapping_data: the county -> BA assignment frame
    ret,              \* the table the called function returned
    idx,              \* ba_pop_interpolate: the hourly DatetimeIndex
    wide,             \* ba_pop_interpolate: the pivoted (year x name) frame
    res,              \* ba_pop_interpolate: the interpolated hourly frame
    \* ---- data_process_eia_930.py
    n_jobs,           \* worker count given to joblib.Parallel
    xlsx,             \* what each listed path holds on disk
    task,             \* per file: "pending", "running", "read", "dated", "written", "failed", "killed"
    csv,              \* per file: header of the csv written, or NoCsv
    \* ---- install_quickstarter_data.py
    current_version,  \* get_distribution('tell').version
    data_link,        \* the resolved url
    http_requests,    \* urls requested so far
    response,         \* what requests.get returned
    data_dir,         \* entries of the target directory
    data_dir0         \* entries of the target directory when the call began

popVars   == <<start_year, end_year, df_pop, y, df, frame, ret, idx, wide, res>>
eiaVars   == <<n_jobs, xlsx, task, csv>>
fetchVars == <<current_version, data_link, http_requests, response, data_dir, data_dir0>>
vars      == <<call, pc, outcome, popVars, eiaVars, fetchVars>>

(***************************************************************************)
(* Bounds                                                                  *)
(***************************************************************************)
MaxYears    == 2      \* years the inputs may span, from FirstYear on
MaxCounties == 2      \* rows of the population csv
MaxRows     == 2      \* rows of the county -> BA assignment csv
MaxBA       == 2      \* BA numbers 1..MaxBA appear in the assignment csv
MaxFiles    == 3      \* entries of ba_name that are modelled
MaxJobs     == 2      \* n_jobs ranges over 1..MaxJobs

FirstYear   == 2015   \* 1.4_matlab_to_python.py: start_year

Years       == FirstYear .. (FirstYear + MaxYears - 1)
Counties    == 1 .. MaxCounties
Populations == {50, 100}

\* A csv cell: <<v>> holds v, <<>> is empty (read by pandas as NaN).
Cell(v) == <<v>>
NaN     == <<>>

(***************************************************************************)
(* Outcomes                                                                *)
(***************************************************************************)
Running          == [kind |-> "running",  exc |-> "",  msg |-> <<>>]
Returned         == [kind |-> "returned", exc |-> "",  msg |-> <<>>]
Raised(e, m)     == [kind |-> "raised",   exc |-> e,   msg |-> m]

NoTable == <<"no table">>
NoIndex == [built |-> FALSE, first |-> 0, last |-> 0, n |-> 0]
NoCsv   == <<"no csv">>

(***************************************************************************)
(* install_quickstarter_data.py : InstallQuickstarterData.fetch_zenodo     *)
(***************************************************************************)
ZenodoUrl == "https://zenodo.org/record/6578641/files/tell_quickstarter_data.zip?download=1"

DATA_VERSION_URLS == [v \in {"0.0.1", "0.1.0", "0.1.1"} |-> ZenodoUrl]

\* Versions get_distribution('tell').version may give: the three released
\* ones and two that have no entry in DATA_VERSION_URLS.
InstalledVersions == {"0.0.1", "0.1.0", "0.1.1", "0.1.2", "1.0.0"}

\* Entries the target directory may hold before the call; None stands for
\* data_dir=None (the constructor's default).
DirEntries   == {"notes.txt", "__MACOSX"}
ArchiveFiles == <<"tell_quickstarter_data", "__MACOSX">>
Responses    == {"zip", "zip_without_macosx", "not_a_zip"}

MissingLinkMsg(v) ==
    <<"Link to data missing for current version: ", v, ". Please contact an administrator.">>

\* A lookup that falls back to a default url instead of raising.
DataLinkOrDefault(v) ==
    [found |-> TRUE,
     url   |-> IF v \in DOMAIN DATA_VERSION_URLS THEN DATA_VERSION_URLS[v] ELSE ZenodoUrl]

\* Line 36: DATA_VERSION_URLS[current_version]; KeyError when absent.
DataLink(v) ==
    IF v \in DOMAIN DATA_VERSION_URLS
    THEN [found |-> TRUE,  url |-> DATA_VERSION_URLS[v]]
    ELSE [found |-> FALSE, url |-> ""]

\* The members of the archive a response holds, in archive order.
Members(r) ==
    IF r = "zip" THEN ArchiveFiles
    ELSE IF r = "zip_without_macosx" THEN <<"tell_quickstarter_data">>
    ELSE <<>>

SeqRange(s) == {s[i] : i \in 1 .. Len(s)}

InitFetch ==
    /\ call = "fetch_zenodo"
    /\ pc = "fetch_32"
    /\ current_version \in InstalledVersions
    /\ data_dir0 \in [given : BOOLEAN, entries : SUBSET DirEntries]
    /\ data_dir = data_dir0
    /\ data_link = ""
    /\ http_requests = <<>>
    /\ response = "none"

\* Lines 32-41: resolve the installed version to its url, or raise KeyError.
FetchLookup ==
    /\ pc = "fetch_32"
    /\ LET l == DataLink(current_version) IN
       IF l.found
       THEN /\ data_link' = l.url
            /\ pc' = "fetch_45"
            /\ UNCHANGED outcome
       ELSE /\ outcome' = Raised("KeyError", MissingLinkMsg(current_version))
            /\ pc' = "done"
            /\ UNCHANGED data_link
    /\ UNCHANGED <<call, popVars, eiaVars, current_version, http_requests, response,
                   data_dir, data_dir0>>

\* Line 45: requests.get(data_link); the request may fail to connect.
FetchGet ==
    /\ pc = "fetch_45"
    /\ http_requests' = Append(http_requests, data_link)
    /\ \/ /\ \E r \in Responses : response' = r
          /\ pc' = "fetch_48"
          /\ UNCHANGED outcome
       \/ /\ outcome' = Raised("ConnectionError", <<>>)
          /\ pc' = "done"
          /\ UNCHANGED response
    /\ UNCHANGED <<call, popVars, eiaVars, current_version, data_link, data_dir, data_dir0>>

\* Lines 48-49: ZipFile(BytesIO(r.content)).extractall(self.data_dir).  Content
\* that is no zip raises BadZipFile; extractall writes member after member and
\* may fail part-way (k members written).
FetchExtract ==
    /\ pc = "fetch_48"
    /\ IF response = "not_a_zip"
       THEN /\ outcome' = Raised("BadZipFile", <<>>)
            /\ pc' = "done"
            /\ UNCHANGED data_dir
       ELSE \E k \in 0 .. Len(Members(response)) :
              /\ data_dir' = [data_dir EXCEPT
                     !.entries = @ \cup SeqRange(SubSeq(Members(response), 1, k))]
              /\ IF k = Len(Members(response))
                 THEN pc' = "fetch_52" /\ UNCHANGED outcome
                 ELSE pc' = "done" /\ outcome' = Raised("OSError", <<>>)
    /\ UNCHANGED <<call, popVars, eiaVars, current_version, data_link, http_requests,
                   response, data_dir0>>

\* Line 52: shutil.rmtree(os.path.join(self.data_dir, '__MACOSX')).
FetchRmtree ==
    /\ pc = "fetch_52"
    /\ IF ~data_dir.given
       THEN /\ outcome' = Raised("TypeError", <<>>)
            /\ pc' = "done"
            /\ UNCHANGED data_dir
       ELSE IF "__MACOSX" \notin data_dir.entries
       THEN /\ outcome' = Raised("FileNotFoundError", <<>>)
            /\ pc' = "done"
            /\ UNCHANGED data_dir
       ELSE /\ data_dir' = [data_dir EXCEPT !.entries = @ \ {"__MACOSX"}]
            /\ pc' = "fetch_55"
            /\ UNCHANGED outcome
    /\ UNCHANGED <<call, popVars, eiaVars, current_version, data_link, http_requests,
                   response, data_dir0>>

\* Line 55: print("Done!") and return.
FetchDone ==
    /\ pc = "fetch_55"
    /\ outcome' = Returned
    /\ pc' = "done"
    /\ UNCHANGED <<call, popVars, eiaVars, fetchVars>>

(***************************************************************************)
(* data_process_pop_interp.py : fips_pop_yearly                            *)
(***************************************************************************)
\* What county_populations_2000_to_2019.csv may hold: n rows (county_FIPS
\* 1..n), and a pop_<year> column for each year of cols.
PopTables ==
    UNION { [cols : {c}, n : {n}, pop : [1 .. n -> [c -> Populations]]]
            : <<c, n>> \in (SUBSET Years) \X Counties }

\* A loop that stops one year early.
YearsToLoadExclusive(s, e) == s .. (e - 1)

\* Line 24: range(start_year, end_year + 1).
YearsToLoad(s, e) == s .. e

\* Lines 26-32: df_pop[[f'pop_{y}', 'county_FIPS']] with the year tagged and
\* the population column renamed; one row per row of the csv, in its order.
YearSlice(t, yr) ==
    [i \in 1 .. t.n |-> [population |-> t.pop[i][yr], county_FIPS |-> i, year |-> yr]]

InitPop ==
    /\ call \in {"fips_pop_yearly", "merge_mapping_data", "ba_pop_sum", "ba_pop_interpolate"}
    /\ pc = CASE call = "fips_pop_yearly"    -> "fips_20"
              [] call = "merge_mapping_data" -> "merge_53"
              [] call = "ba_pop_sum"         -> "sum_100"
              [] OTHER                       -> "interp_123"
    /\ start_year \in Years
    /\ end_year \in Years

\* Lines 20-24: read the csv, start from the empty frame, enter the loop.
FipsReadCsv ==
    /\ pc = "fips_20"
    /\ \E t \in PopTables : df_pop' = t
    /\ df' = <<>>
    /\ y' = start_year
    /\ pc' = IF start_year \in YearsToLoad(start_year, end_year) THEN "fips_26" ELSE "fips_37"
    /\ UNCHANGED <<call, outcome, start_year, end_year, frame, ret, idx, wide, res, eiaVars, fetchVars>>

\* Lines 26-35: one pass of the loop.  Selecting a column the csv lacks
\* raises KeyError, which leaves the function: nothing is returned.
FipsLoopBody ==
    /\ pc = "fips_26"
    /\ IF y \notin df_pop.cols
       THEN /\ outcome' = Raised("KeyError", <<"pop_", y>>)
            /\ pc' = "done"
            /\ UNCHANGED <<df, y>>
       ELSE /\ df' = df \o YearSlice(df_pop, y)
            /\ y' = y + 1
            /\ pc' = IF y + 1 \in YearsToLoad(start_year, end_year) THEN "fips_26" ELSE "fips_37"
            /\ UNCHANGED outcome
    /\ UNCHANGED <<call, start_year, end_year, df_pop, frame, ret, idx, wide, res, eiaVars, fetchVars>>

\* Line 37: return df.
FipsReturn ==
    /\ pc = "fips_37"
    /\ ret' = df
    /\ outcome' = Returned
    /\ pc' = "done"
    /\ UNCHANGED <<call, start_year, end_year, df_pop, y, df, frame, idx, wide, res, eiaVars, fetchVars>>

(***************************************************************************)
(* data_process_pop_interp.py : merge_mapping_data, ba_pop_sum,            *)
(* ba_pop_interpolate                                                      *)
(***************************************************************************)
\* Rows state_and_county_fips_codes.csv may hold; BA_Number and County_FIPS
\* may be empty.
MapRows ==
    [Year : Years,
     County_FIPS : {Cell(c) : c \in Counties} \cup {NaN},
     BA_Number : {Cell(b) : b \in 1 .. MaxBA} \cup {NaN}]

MapTables == UNION { [1 .. n -> MapRows] : n \in 0 .. MaxRows }

\* Lines 66-67: fillna(0).astype(np.int64) on BA_Number and County_FIPS.
FillNa(c) == IF c = NaN THEN 0 ELSE c[1]

Coerce(rows) ==
    [i \in 1 .. Len(rows) |->
        [Year        |-> rows[i].Year,
         County_FIPS |-> FillNa(rows[i].County_FIPS),
         BA_Number   |-> FillNa(rows[i].BA_Number)]]

\* Line 123: ba_pop_interpolate calls ba_pop_sum.
BaPopInterpolateCall ==
    /\ pc = "interp_123"
    /\ pc' = "sum_100"
    /\ UNCHANGED <<call, outcome, popVars, eiaVars, fetchVars>>

\* Line 100: ba_pop_sum calls merge_mapping_data.
BaPopSumCall ==
    /\ pc = "sum_100"
    /\ pc' = "merge_53"
    /\ UNCHANGED <<call, outcome, popVars, eiaVars, fetchVars>>

\* Lines 53-67.  The glob pattern holds no wildcard: it matches the one file
\* or nothing, and pd.concat of an empty list raises ValueError.  Otherwise
\* the three columns are kept and the two number columns coerced.
MergeReadFrames ==
    /\ pc = "merge_53"
    /\ \/ /\ outcome' = Raised("ValueError", <<"No objects to concatenate">>)
          /\ pc' = "done"
          /\ UNCHANGED frame
       \/ /\ \E rows \in MapTables : frame' = Coerce(rows)
          /\ pc' = "merge_69"
          /\ UNCHANGED outcome
    /\ UNCHANGED <<call, start_year, end_year, df_pop, y, df, ret, idx, wide, res, eiaVars, fetchVars>>

\* Line 69: frame['BA_Number'].totuple().  A pandas Series has no attribute
\* totuple: AttributeError.  No caller catches it, so it leaves ba_pop_sum and
\* ba_pop_interpolate too; lines 70-84, 104 and 124-138 are never reached.
MergeUniqueNum ==
    /\ pc = "merge_69"
    /\ outcome' = Raised("AttributeError", <<"Series", "totuple">>)
    /\ pc' = "done"
    /\ UNCHANGED <<call, popVars, eiaVars, fetchVars>>

(***************************************************************************)
(* data_process_eia_930.py                                                 *)
(***************************************************************************)
\* Lines 15-20: the fixed list of BA short names.
ba_name ==
    <<"AEC", "YAD", "AZPS", "AECI", "BPAT", "CISO", "CPLE", "CHPD", "DOPD", "DUK",
      "EPE", "ERCO", "EEI", "FPL", "FPC", "GVL", "HST", "IPCO", "IID", "JEA", "LDWP", "LGEE", "NWMT",
      "NEVP", "ISNE", "NSB", "NYIS", "OVEC", "PACW", "PACE", "GRMA", "FMPP", "GCPD", "PJM", "AVRN", "PSCO",
      "PGE", "PNM", "PSEI", "BANC", "SRP", "SCL", "SCEG", "SC", "SPA", "SOCO", "TPWR", "TAL", "TEC", "TVA",
      "TIDC", "WAUW", "AVA", "SEC", "TEPC", "WALC", "WACM", "SEPA", "GRIF", "GWA", "MISO",
      "DEAA", "CPLW", "GRID", "WWA", "SWPP">>

\* The entries of ba_name the model converts.
Files == 1 .. MaxFiles

\* Lines 22-27: one path per name, whether or not the file exists.
list_EIA_930_files == [i \in Files |-> <<ba_name[i], ".xlsx">>]

\* What a listed path may hold: a well-formed workbook, nothing, a workbook
\* without the sheet 'Published Hourly Data', or one whose 'UTC time' column
\* is not a datetime column.
XlsxKinds == {"ok", "missing", "wrong_sheet", "bad_utc"}

Malformed(i) == xlsx[i] # "ok"

\* Line 48.
col_names == <<"Year", "Month", "Day", "Hour", "DF", "Adjusted D", "Adjusted NG", "Adjusted TI">>

\* Lines 53-56: the rename mapping, as written.
RenameMap ==
    [c \in {"DF", "Adjusted D", "Adjusted NG", "Adjusted TI"} |->
        CASE c = "DF"          -> "Forecast_Demand_MWh'"
          [] c = "Adjusted D"  -> "Adjusted_Demand_MWh"
          [] c = "Adjusted NG" -> "Adjusted_Generation_MWh"
          [] OTHER             -> "Adjusted_Interchange_MWh"]

\* DataFrame.rename(columns=m): a column named in m takes its new name.
Rename(cols, m) ==
    [i \in 1 .. Len(cols) |-> IF cols[i] \in DOMAIN m THEN m[cols[i]] ELSE cols[i]]

\* Lines 48-59: the header of the csv that to_csv(header=True) writes.
WrittenHeader == Rename(col_names, RenameMap)

\* The exception eia_data_subset raises on a malformed file.
ExcOf(kind) ==
    CASE kind = "missing"     -> "FileNotFoundError"
      [] kind = "wrong_sheet" -> "ValueError"
      [] OTHER                -> "AttributeError"

Active(i) == task[i] \in {"running", "read", "dated"}

InitEia ==
    /\ call = "process_eia_930"
    /\ pc = "eia_78"
    /\ n_jobs \in 1 .. MaxJobs
    /\ xlsx \in [Files -> XlsxKinds]
    /\ task = [i \in Files |-> "pending"]
    /\ csv = [i \in Files |-> NoCsv]

\* Line 78: joblib hands the calls to its workers in list order, at most
\* n_jobs at a time.  With one job the calls run in the caller itself, so
\* nothing starts after a call has raised.
EiaDispatch(i) ==
    /\ pc = "eia_78"
    /\ task[i] = "pending"
    /\ \A j \in Files : j < i => task[j] # "pending"
    /\ Cardinality({j \in Files : Active(j)}) < n_jobs
    /\ n_jobs = 1 => \A j \in Files : task[j] # "failed"
    /\ task' = [task EXCEPT ![i] = "running"]
    /\ UNCHANGED <<call, pc, outcome, popVars, n_jobs, xlsx, csv, fetchVars>>

\* Line 39: pd.read_excel(file_string, sheet_name='Published Hourly Data').
EiaReadExcel(i) ==
    /\ pc = "eia_78"
    /\ task[i] = "running"
    /\ task' = [task EXCEPT ![i] = IF xlsx[i] \in {"missing", "wrong_sheet"} THEN "failed" ELSE "read"]
    /\ UNCHANGED <<call, pc, outcome, popVars, n_jobs, xlsx, csv, fetchVars>>

\* Lines 42-45: df['UTC time'].dt.strftime(...); the .dt accessor raises
\* AttributeError on a column that is not datetime-like.
EiaDates(i) ==
    /\ pc = "eia_78"
    /\ task[i] = "read"
    /\ task' = [task EXCEPT ![i] = IF xlsx[i] = "bad_utc" THEN "failed" ELSE "dated"]
    /\ UNCHANGED <<call, pc, outcome, popVars, n_jobs, xlsx, csv, fetchVars>>

\* Lines 48-59: keep col_names, rename, write <BA>_hourly_load_data.csv.
EiaWrite(i) ==
    /\ pc = "eia_78"
    /\ task[i] = "dated"
    /\ csv' = [csv EXCEPT ![i] = WrittenHeader]
    /\ task' = [task EXCEPT ![i] = "written"]
    /\ UNCHANGED <<call, pc, outcome, popVars, n_jobs, xlsx, fetchVars>>

\* Line 78: Parallel collects the results in list order; the first call that
\* raised has its exception re-raised in the caller, the calls still running
\* are terminated and the calls not yet started never start.
EiaAbort ==
    /\ pc = "eia_78"
    /\ \E f \in Files :
          /\ task[f] = "failed"
          /\ \A j \in Files : j < f => task[j] = "written"
          /\ outcome' = Raised(ExcOf(xlsx[f]), list_EIA_930_files[f])
    /\ task' = [i \in Files |-> IF Active(i) THEN "killed" ELSE task[i]]
    /\ pc' = "done"
    /\ UNCHANGED <<call, popVars, n_jobs, xlsx, csv, fetchVars>>

\* Lines 78-83: every call returned; process_eia_930 returns (None).
EiaReturn ==
    /\ pc = "eia_78"
    /\ \A i \in Files : task[i] = "written"
    /\ outcome' = Returned
    /\ pc' = "done"
    /\ UNCHANGED <<call, popVars, eiaVars, fetchVars>>

(***************************************************************************)
(* The program: one call of one public function                            *)
(***************************************************************************)
IdlePop ==
    /\ start_year = FirstYear /\ end_year = FirstYear

IdleEia ==
    /\ n_jobs = 1
    /\ xlsx = [i \in Files |-> "ok"]
    /\ task = [i \in Files |-> "pending"]
    /\ csv = [i \in Files |-> NoCsv]

IdleFetch ==
    /\ current_version = "0.1.1"
    /\ data_dir0 = [given |-> TRUE, entries |-> {}]
    /\ data_dir = data_dir0
    /\ data_link = ""
    /\ http_requests = <<>>
    /\ response = "none"

Init ==
    /\ outcome = Running
    /\ df_pop = NoTable /\ y = 0 /\ df = <<>> /\ frame = NoTable /\ ret = NoTable
    /\ idx = NoIndex /\ wide = NoTable /\ res = NoTable
    /\ \/ InitPop /\ IdleEia /\ IdleFetch
       \/ InitEia /\ IdlePop /\ IdleFetch
       \/ InitFetch /\ IdlePop /\ IdleEia

Next ==
    \/ FipsReadCsv
    \/ FipsLoopBody
    \/ FipsReturn
    \/ BaPopInterpolateCall
    \/ BaPopSumCall
    \/ MergeReadFrames
    \/ MergeUniqueNum
    \/ \E i \in Files : EiaDispatch(i)
    \/ \E i \in Files : EiaReadExcel(i)
    \/ \E i \in Files : EiaDates(i)
    \/ \E i \in Files : EiaWrite(i)
    \/ EiaAbort
    \/ EiaReturn
    \/ FetchLookup
    \/ FetchGet
    \/ FetchExtract
    \/ FetchRmtree
    \/ FetchDone

Spec == Init /\ [][Next]_vars

(***************************************************************************)
(* data_process_pop_interp.py : the statements of ba_pop_interpolate after *)
(* its call of ba_pop_sum (lines 124-138), as functions of the table they  *)
(* are handed.  Time is counted in hours from FirstYear-01-01 00:00.       *)
(***************************************************************************)
BANames    == <<"AEC", "YAD">>          \* BA short names, in sorted order
AnnualPops == {150, 260}

IsLeap(yr)     == (yr % 4 = 0 /\ yr % 100 # 0) \/ yr % 400 = 0
DaysInYear(yr) == IF IsLeap(yr) THEN 366 ELSE 365

\* The hour of <yr>-01-01 00:00.
RECURSIVE JanFirst(_)
JanFirst(yr) == IF yr <= FirstYear THEN 0 ELSE JanFirst(yr - 1) + 24 * DaysInYear(yr - 1)

\* The hour of <yr>-12-31 00:00: a date without a time parses to midnight.
DecLast(yr) == JanFirst(yr) + 24 * (DaysInYear(yr) - 1)

\* Index labels.  The pivot's index holds the integers of column 'year'
\* (line 124 converts them to datetimes and drops the result); the hourly
\* index holds timestamps.  pandas compares labels of different types as
\* objects: an integer is equal to no timestamp.
IntLabel(v)  == <<"int64", v>>
Timestamp(h) == <<"datetime64[ns]", h>>

\* The tables ba_pop_sum's groupby can hand over for s..e: at most one row
\* per (BA_Short_Name, year), sorted by name, then year.
AllKeys(s, e) ==
    [i \in 1 .. (Len(BANames) * (e - s + 1)) |->
        [name |-> BANames[((i - 1) \div (e - s + 1)) + 1], year |-> s + ((i - 1) % (e - s + 1))]]

RECURSIVE Rows(_, _, _)
Rows(keys, present, pop) ==
    IF keys = <<>> THEN <<>>
    ELSE LET k == Head(keys) IN
         (IF k \in present
          THEN <<[BA_Short_Name |-> k.name, year |-> k.year, population |-> pop[k]]>>
          ELSE <<>>) \o Rows(Tail(keys), present, pop)

AnnualTables(s, e) ==
    IF s > e THEN {<<>>}
    ELSE UNION { { Rows(AllKeys(s, e), K, pop) : pop \in [K -> AnnualPops] }
                 : K \in SUBSET SeqRange(AllKeys(s, e)) }

RECURSIVE SortSet(_)
SortSet(S) ==
    IF S = {} THEN <<>>
    ELSE LET m == CHOOSE x \in S : \A z \in S : x <= z IN <<m>> \o SortSet(S \ {m})

IsName(t, nm) == \E i \in 1 .. Len(t) : t[i].BA_Short_Name = nm

\* Lines 125-128: df.pivot(index='year', columns='name', values='pop'): one
\* row per year of the table (sorted), one column per name (sorted), NaN where
\* the table has no row for the pair.
pivot(t) ==
    LET yrs == SortSet({t[i].year : i \in 1 .. Len(t)}) IN
    [index   |-> [k \in 1 .. Len(yrs) |-> IntLabel(yrs[k])],
     columns |-> SelectSeq(BANames, LAMBDA nm : IsName(t, nm)),
     values  |-> [nm \in {t[i].BA_Short_Name : i \in 1 .. Len(t)} |->
                    [k \in 1 .. Len(yrs) |->
                        IF \E i \in 1 .. Len(t) : t[i].BA_Short_Name = nm /\ t[i].year = yrs[k]
                        THEN Cell((CHOOSE r \in SeqRange(t) :
                                      r.BA_Short_Name = nm /\ r.year = yrs[k]).population)
                        ELSE NaN]]]

\* Line 131: pd.date_range(start=f'{s}-01-01', end=f'{e}-12-31', freq='H'):
\* every hour from the start through the end, both read as midnight.
date_range(s, e) ==
    [built |-> TRUE, first |-> JanFirst(s), last |-> DecLast(e),
     n |-> IF DecLast(e) < JanFirst(s) THEN 0 ELSE DecLast(e) - JanFirst(s) + 1]

\* The label at position p of an hourly index.
LabelAt(ix, p) == Timestamp(ix.first + p - 1)

\* Line 134: df.reindex(idx): the row of the frame whose label equals the new
\* label, NaN where there is none.
reindex(w, ix) ==
    [nm \in DOMAIN w.values |->
        [p \in 1 .. ix.n |->
            IF \E k \in 1 .. Len(w.index) : w.index[k] = LabelAt(ix, p)
            THEN w.values[nm][CHOOSE k \in 1 .. Len(w.index) : w.index[k] = LabelAt(ix, p)]
            ELSE NaN]]

SetMax(S) == CHOOSE x \in S : \A z \in S : z <= x
SetMin(S) == CHOOSE x \in S : \A z \in S : x <= z

\* A number as an exact fraction (the rounding of float64 is not modelled).
Frac(a, b) == [num |-> a, den |-> b]

\* Line 134: Series.interpolate(method='linear'), limit_direction 'forward':
\* a gap between two values is filled on the straight line through them, taking
\* the rows as equally spaced; a gap after the last value repeats that value;
\* a gap before the first value stays NaN.
interpolate(col) ==
    LET valid == {p \in DOMAIN col : col[p] # NaN} IN
    [p \in DOMAIN col |->
        IF p \in valid THEN Cell(Frac(col[p][1], 1))
        ELSE LET before == {a \in valid : a < p}
                 after  == {b \in valid : b > p}
             IN IF before = {} THEN NaN
                ELSE IF after = {} THEN Cell(Frac(col[SetMax(before)][1], 1))
                ELSE LET a == SetMax(before)
                         b == SetMin(after)
                     IN Cell(Frac(col[a][1] * (b - a) + (col[b][1] - col[a][1]) * (p - a), b - a))]

InitInterpolate ==
    /\ call = "ba_pop_interpolate"
    /\ pc = "interp_124"
    /\ outcome = Running
    /\ start_year \in Years
    /\ end_year \in Years
    /\ ret \in AnnualTables(start_year, end_year)
    /\ df_pop = NoTable /\ y = 0 /\ df = <<>> /\ frame = NoTable
    /\ idx = NoIndex /\ wide = NoTable /\ res = NoTable
    /\ IdleEia /\ IdleFetch

\* Lines 124-128: the renames and the pivot.
InterpolatePivot ==
    /\ pc = "interp_124"
    /\ wide' = pivot(ret)
    /\ pc' = "interp_131"
    /\ UNCHANGED <<call, outcome, start_year, end_year, df_pop, y, df, frame, ret, idx, res,
                   eiaVars, fetchVars>>

\* Line 131: the hourly index.
InterpolateIndex ==
    /\ pc = "interp_131"
    /\ idx' = date_range(start_year, end_year)
    /\ pc' = "interp_134"
    /\ UNCHANGED <<call, outcome, start_year, end_year, df_pop, y, df, frame, ret, wide, res,
                   eiaVars, fetchVars>>

\* Line 134: reindex onto the hourly index and interpolate every column.
InterpolateReindex ==
    /\ pc = "interp_134"
    /\ res' = LET r == reindex(wide, idx) IN [nm \in DOMAIN r |-> interpolate(r[nm])]
    /\ pc' = "interp_136"
    /\ UNCHANGED <<call, outcome, start_year, end_year, df_pop, y, df, frame, ret, idx, wide,
                   eiaVars, fetchVars>>

\* Lines 136-138: write hourly_population.csv and return res.
InterpolateReturn ==
    /\ pc = "interp_136"
    /\ outcome' = Returned
    /\ pc' = "done"
    /\ UNCHANGED <<call, popVars, eiaVars, fetchVars>>

NextInterpolate ==
    \/ InterpolatePivot
    \/ InterpolateIndex
    \/ InterpolateReindex
    \/ InterpolateReturn

SpecInterpolate == InitInterpolate /\ [][NextInterpolate]_vars

(***************************************************************************)
(* What the specification expects, for comparison with what the code does  *)
(***************************************************************************)
\* The BA metadata lookup (tell.metadata_eia): BA number -> BA short name.
\* BA number MaxBA has no entry.
BAMetadata == [b \in 1 .. (MaxBA - 1) |-> BANames[b]]

RECURSIVE SumSeq(_)
SumSeq(q) == IF q = <<>> THEN 0 ELSE Head(q) + SumSeq(Tail(q))

RECURSIVE DaysInRange(_, _)
DaysInRange(s, e) == IF s > e THEN 0 ELSE DaysInYear(s) + DaysInRange(s + 1, e)

\* The counties of the population csv that the assignment frame puts, for
\* year yr, under a BA number that the metadata resolves to nm.
CountiesOf(nm, yr) ==
    {c \in 1 .. df_pop.n :
        \E i \in 1 .. Len(frame) :
            /\ frame[i].Year = yr /\ frame[i].County_FIPS = c
            /\ frame[i].BA_Number \in DOMAIN BAMetadata
            /\ BAMetadata[frame[i].BA_Number] = nm}

ExactSum(nm, yr) ==
    SumSeq([k \in 1 .. Len(SortSet(CountiesOf(nm, yr))) |->
               df_pop.pop[SortSet(CountiesOf(nm, yr))[k]][yr]])

InputTotal ==
    SumSeq([k \in 1 .. (df_pop.n * (end_year - start_year + 1)) |->
               df_pop.pop[((k - 1) % df_pop.n) + 1][start_year + ((k - 1) \div df_pop.n)]])

\* The rows of the assignment frame under a BA number without metadata.
UnknownBARows == {i \in 1 .. Len(frame) : frame[i].BA_Number \notin DOMAIN BAMetadata}

\* The annual anchors of BA nm in the table handed to the interpolator.
Anchors(nm) == {i \in 1 .. Len(ret) : ret[i].BA_Short_Name = nm}

\* The position in the hourly index of <yr>-01-01 00:00.
AnchorPos(yr) == JanFirst(yr) - idx.first + 1

SameNumber(c, a, b) == c # NaN /\ c[1].num * b = a * c[1].den

\* The header of the per-BA csv as section 6 of the specification fixes it.
ExpectedHeader ==
    <<"Year", "Month", "Day", "Hour", "Forecast_Demand_MWh", "Adjusted_Demand_MWh",
      "Adjusted_Generation_MWh", "Adjusted_Interchange_MWh">>

\* The files a finished batch reports as failed: the one named by the
\* exception that left process_eia_930, if any.
ReportedFailures ==
    IF outcome.kind = "raised" THEN {i \in Files : list_EIA_930_files[i] = outcome.msg} ELSE {}

(***************************************************************************)
(* Claims                                                                  *)
(***************************************************************************)

C4_AggregateIsExactSum ==
    (call = "ba_pop_sum" /\ pc = "done") =>
        /\ outcome.kind = "returned"
        /\ \A i \in 1 .. Len(ret) :
              ret[i].population = ExactSum(ret[i].BA_Short_Name, ret[i].year)
        /\ \A nm \in SeqRange(BANames) : \A yr \in start_year .. end_year :
              CountiesOf(nm, yr) # {} =>
                  \E i \in 1 .. Len(ret) : ret[i].BA_Short_Name = nm /\ ret[i].year = yr

\* C5: the total of all populations in the output of ba_pop_sum never exceeds
\* the total of the input county populations of the requested years.
C5_TotalNeverExceedsInput ==
    (call = "ba_pop_sum" /\ pc = "done" /\ frame # NoTable) =>
        /\ ret # NoTable
        /\ SumSeq([i \in 1 .. Len(ret) |-> ret[i].population]) <= InputTotal

\* C6: a BA number of the assignment table without metadata is excluded: the
\* table merge_mapping_data returns has as many rows as the input minus that
\* BA's county-years, and no aggregate holds their population.
C6_UnknownBAExcluded ==
    (call = "merge_mapping_data" /\ pc = "done" /\ frame # NoTable) =>
        /\ ret # NoTable
        /\ Len(ret) = Len(frame) - Cardinality(UnknownBARows)

\* C7: in process_eia_930 one file's failed conversion neither aborts nor
\* prevents the other conversions and is reported for that file only: of n
\* files with k malformed, the run ends with n-k csv files and k failures
\* reported.
C7_IndependentConversions ==
    (call = "process_eia_930" /\ pc = "done") =>
        /\ \A i \in Files : ~Malformed(i) => csv[i] # NoCsv
        /\ ReportedFailures = {i \in Files : Malformed(i)}

\* C8: fips_pop_yearly fails (KeyError) whenever the population table lacks
\* the column of a year of [start_year, end_year], and then returns no table,
\* not even the rows of the years before the missing one; with every column
\* present it returns (end_year - start_year + 1) x county-count rows.
C8_MissingYearColumnIsFatal ==
    (call = "fips_pop_yearly" /\ pc = "done" /\ start_year <= end_year) =>
        IF \E yr \in start_year .. end_year : yr \notin df_pop.cols
        THEN outcome.kind = "raised" /\ outcome.exc = "KeyError" /\ ret = NoTable
        ELSE outcome = Returned /\ Len(ret) = (end_year - start_year + 1) * df_pop.n

\* A call that failed on a later year, with the earlier years' rows collected.
C8_Witness ==
    /\ call = "fips_pop_yearly" /\ pc = "done"
    /\ outcome.kind = "raised" /\ Len(df) > 0 /\ ret = NoTable

\* C9: fetch_zenodo with an installed version that has no entry in
\* DATA_VERSION_URLS fails with an error whose message names the version,
\* before any HTTP request, extraction or directory removal.
C9_UnknownVersionFailsFirst ==
    (call = "fetch_zenodo" /\ current_version \notin DOMAIN DATA_VERSION_URLS) =>
        /\ http_requests = <<>>
        /\ response = "none"
        /\ data_dir = data_dir0
        /\ pc = "done" =>
              /\ outcome.kind = "raised"
              /\ \E k \in 1 .. Len(outcome.msg) : outcome.msg[k] = current_version

\* A finished call for a version without a url.
C9_Witness ==
    /\ call = "fetch_zenodo" /\ pc = "done"
    /\ current_version \notin DOMAIN DATA_VERSION_URLS
    /\ outcome.kind = "raised"

\* C10: every per-BA csv written by eia_data_subset has exactly the header
\* Year, Month, Day, Hour, Forecast_Demand_MWh, Adjusted_Demand_MWh,
\* Adjusted_Generation_MWh, Adjusted_Interchange_MWh, in this order.
C10_CsvHeader ==
    \A i \in Files : csv[i] # NoCsv => csv[i] = ExpectedHeader

====
